---- MODULE Spec2Model ----
(***************************************************************************)
(* A model of bot.py: a chat bot that stores one spreadsheet per chat,     *)
(* extracts grading weights, assignments and info rows from it, answers    *)
(* /help, /info and /update, and runs one reminder job per chat.           *)
(*                                                                         *)
(* Representation.  Text is a sequence of one-character strings.  A        *)
(* timestamp (Python naive datetime) is an integer number of "slots"       *)
(* since 1899-12-30 00:00, DaySlots slots to the day, so the calendar      *)
(* date of a timestamp is ts \div DaySlots and equals the Excel serial of  *)
(* that date.  A spreadsheet cell is a record [kind, n, s]: kind "none"    *)
(* (empty cell), "datetime" (n a timestamp), "num" (n a serial in slots)   *)
(* or "str" (s the text).                                                  *)
(***************************************************************************)
EXTENDS Integers, Sequences, FiniteSets, TLC

\* ------------------------------------------------------------------------
\* Bounds of the model
\* ------------------------------------------------------------------------
DaySlots == 2
MaxRows == 3
MaxLimit == 2
MaxClock == 2

\* ------------------------------------------------------------------------
\* Program constants
\* ------------------------------------------------------------------------
ADMIN_ID == 669636800
HORIZON_DAYS == 14
WEEK_AHEAD == 7
DAY_AHEAD == 1
DEFAULT_LIMIT == 5

\* ------------------------------------------------------------------------
\* Text helpers (str.strip, str.lower, str.endswith, str(int), int(str))
\* ------------------------------------------------------------------------
Digs == <<"0", "1", "2", "3", "4", "5", "6", "7", "8", "9">>

IsDigit(c) == \E i \in 1..10 : Digs[i] = c

DigitVal(c) == (CHOOSE i \in 1..10 : Digs[i] = c) - 1

IsSpace(c) == c = " "

RECURSIVE LStrip(_)
LStrip(s) ==
    IF s # <<>> /\ IsSpace(Head(s)) THEN LStrip(Tail(s)) ELSE s

RECURSIVE RStrip(_)
RStrip(s) ==
    IF s # <<>> /\ IsSpace(s[Len(s)]) THEN RStrip(SubSeq(s, 1, Len(s) - 1)) ELSE s

Strip(s) == RStrip(LStrip(s))

LowerChar(c) ==
    CASE c = "X" -> "x"
      [] c = "L" -> "l"
      [] c = "S" -> "s"
      [] c = "M" -> "m"
      [] c = "A" -> "a"
      [] OTHER -> c

Lower(s) == [i \in 1..Len(s) |-> LowerChar(s[i])]

EndsWith(s, suf) ==
    /\ Len(s) >= Len(suf)
    /\ SubSeq(s, Len(s) - Len(suf) + 1, Len(s)) = suf

RECURSIVE NatStr(_)
NatStr(n) ==
    IF n < 10 THEN <<Digs[n + 1]>> ELSE NatStr(n \div 10) \o <<Digs[(n % 10) + 1]>>

\* str(chat_id) as used by the f-strings
IntStr(n) == IF n < 0 THEN <<"-">> \o NatStr(0 - n) ELSE NatStr(n)

RECURSIVE DigitsVal(_, _)
DigitsVal(s, acc) ==
    IF s = <<>> THEN acc ELSE DigitsVal(Tail(s), acc * 10 + DigitVal(Head(s)))

AllDigits(s) == s # <<>> /\ \A i \in 1..Len(s) : IsDigit(s[i])

\* int(path.stem): [ok |-> FALSE] stands for ValueError
ParseInt(s) ==
    LET t == Strip(s)
        neg == t # <<>> /\ Head(t) = "-"
        body == IF t # <<>> /\ Head(t) \in {"-", "+"} THEN Tail(t) ELSE t
    IN  IF AllDigits(body)
        THEN [ok |-> TRUE, val |-> IF neg THEN 0 - DigitsVal(body, 0) ELSE DigitsVal(body, 0)]
        ELSE [ok |-> FALSE, val |-> 0]

Pad2(n) == <<Digs[((n \div 10) % 10) + 1], Digs[(n % 10) + 1]>>

Pad4(n) == Pad2(n \div 100) \o Pad2(n % 100)

\* html.escape on the characters the model's texts use
EscapeChar(c) ==
    CASE c = "&" -> <<"&", "a", "m", "p", ";">>
      [] c = "<" -> <<"&", "l", "t", ";">>
      [] c = ">" -> <<"&", "g", "t", ";">>
      [] OTHER -> <<c>>

RECURSIVE HtmlEscape(_)
HtmlEscape(s) ==
    IF s = <<>> THEN <<>> ELSE EscapeChar(Head(s)) \o HtmlEscape(Tail(s))

\* ------------------------------------------------------------------------
\* Calendar (datetime(y, m, d), datetime.date(), strftime('%d.%m.%Y'))
\* ------------------------------------------------------------------------
IsLeap(y) == (y % 4 = 0 /\ y % 100 # 0) \/ y % 400 = 0

DaysInMonth(y, m) ==
    IF m = 2 THEN (IF IsLeap(y) THEN 29 ELSE 28)
    ELSE IF m \in {4, 6, 9, 11} THEN 30 ELSE 31

\* The serial (days since 1899-12-30) of a proleptic Gregorian date
SerialOfCivil(y, m, d) ==
    LET yy == IF m <= 2 THEN y - 1 ELSE y
        era == yy \div 400
        yoe == yy - era * 400
        mp == (m + 9) % 12
        doy == (153 * mp + 2) \div 5 + d - 1
        doe == yoe * 365 + yoe \div 4 - yoe \div 100 + doy
    IN  era * 146097 + doe - 719468 + 25569

CivilOfSerial(n) ==
    LET z == n - 25569 + 719468
        era == z \div 146097
        doe == z - era * 146097
        yoe == (doe - doe \div 1460 + doe \div 36524 - doe \div 146096) \div 365
        doy == doe - (365 * yoe + yoe \div 4 - yoe \div 100)
        mp == (5 * doy + 2) \div 153
        d == doy - (153 * mp + 2) \div 5 + 1
        m == IF mp < 10 THEN mp + 3 ELSE mp - 9
        y == yoe + era * 400 + (IF m <= 2 THEN 1 ELSE 0)
    IN  [year |-> y, month |-> m, day |-> d]

\* datetime(year, month, day): ValueError outside the calendar
MakeDatetime(y, m, d) ==
    IF y >= 1 /\ y <= 9999 /\ m >= 1 /\ m <= 12 /\ d >= 1 /\ d <= DaysInMonth(y, m)
    THEN [ok |-> TRUE, ts |-> SerialOfCivil(y, m, d) * DaySlots]
    ELSE [ok |-> FALSE, ts |-> 0]

\* datetime.date() of a naive timestamp
DateOf(ts) == ts \div DaySlots

\* due.strftime('%d.%m.%Y')
Strftime(ts) ==
    LET c == CivilOfSerial(DateOf(ts))
    IN  Pad2(c.day) \o <<".">> \o Pad2(c.month) \o <<".">> \o Pad4(c.year)

\* openpyxl from_excel on a serial of at least one day, given in slots: the
\* 1900 leap-year shift below serial 60, OverflowError (ok = FALSE) past
\* 9999-12-31
FromExcel(v) ==
    LET day == v \div DaySlots
    IN  IF day > 2958465 THEN [ok |-> FALSE, ts |-> 0]
        ELSE IF day < 60 THEN [ok |-> TRUE, ts |-> v + DaySlots]
        ELSE [ok |-> TRUE, ts |-> v]

\* ------------------------------------------------------------------------
\* Spreadsheet cells, rows and sheets
\* ------------------------------------------------------------------------
NoneCell == [kind |-> "none", n |-> 0, s |-> <<>>]

StrCell(t) == [kind |-> "str", n |-> 0, s |-> t]

DatetimeCell(ts) == [kind |-> "datetime", n |-> ts, s |-> <<>>]

NumCell(v) == [kind |-> "num", n |-> v, s |-> <<>>]

\* str(cell).strip() if cell is not None else ''
CellText(c) ==
    CASE c.kind = "none" -> <<>>
      [] c.kind = "str" -> Strip(c.s)
      [] OTHER -> IntStr(c.n)

\* re.match(r"(\d{2})\.(\d{2})\.(\d{4})", text): anchored at the start only
DateRegexMatches(t) ==
    /\ Len(t) >= 10
    /\ \A i \in {1, 2, 4, 5, 7, 8, 9, 10} : IsDigit(t[i])
    /\ t[3] = "."
    /\ t[6] = "."

\* The conversion of the due cell: "ok" with a timestamp, "skip" for a row
\* that is dropped (continue), "raise" for an exception that leaves the loop
ConvertDue(c) ==
    IF c.kind = "datetime" THEN [res |-> "ok", ts |-> c.n]
    ELSE IF c.kind = "num"
    THEN LET r == FromExcel(c.n)
         IN  IF r.ok THEN [res |-> "ok", ts |-> r.ts] ELSE [res |-> "skip", ts |-> 0]
    ELSE IF c.kind = "str"
    THEN LET t == Strip(c.s)
         IN  IF ~DateRegexMatches(t) THEN [res |-> "skip", ts |-> 0]
             ELSE LET day == DigitsVal(SubSeq(t, 1, 2), 0)
                      month == DigitsVal(SubSeq(t, 4, 5), 0)
                      year == DigitsVal(SubSeq(t, 7, 10), 0)
                      r == MakeDatetime(year, month, day)
                  IN  IF r.ok THEN [res |-> "ok", ts |-> r.ts]
                      ELSE [res |-> "raise", ts |-> 0]
    ELSE [res |-> "skip", ts |-> 0]

\* The end of one pass of the row loop, given the title, link and due value
RowResult(title, link, due) ==
    IF title = <<>> THEN [res |-> "skip", item |-> <<>>]
    ELSE IF due.res # "ok" THEN [res |-> due.res, item |-> <<>>]
    ELSE [res |-> "ok", item |-> <<[title |-> title, due |-> due.ts, link |-> link]>>]

\* One pass of the row loop: "skip", "raise" or "ok" with the tuple appended.
\* The title is tested before the due value is converted.
ParseRow(row) ==
    IF row[1].kind = "none" /\ row[2].kind = "none" /\ row[3].kind = "none"
    THEN [res |-> "skip", item |-> <<>>]
    ELSE IF CellText(row[1]) = <<>> THEN [res |-> "skip", item |-> <<>>]
    ELSE RowResult(CellText(row[1]), CellText(row[3]), ConvertDue(row[2]))

RECURSIVE ParseRows(_, _)
ParseRows(rows, acc) ==
    IF rows = <<>> THEN [raised |-> FALSE, items |-> acc]
    ELSE LET r == ParseRow(Head(rows))
         IN  IF r.res = "raise" THEN [raised |-> TRUE, items |-> <<>>]
             ELSE ParseRows(Tail(rows), acc \o r.item)

\* A sort that puts a row before the rows of the same due already placed
RECURSIVE InsertBeforeTies(_, _)
InsertBeforeTies(sorted, a) ==
    IF sorted = <<>> THEN <<a>>
    ELSE IF Head(sorted).due < a.due
         THEN <<Head(sorted)>> \o InsertBeforeTies(Tail(sorted), a)
         ELSE <<a>> \o sorted

\* list.sort(key=lambda x: x[1]): stable, ascending by due
RECURSIVE InsertByDue(_, _)
InsertByDue(sorted, a) ==
    IF sorted = <<>> THEN <<a>>
    ELSE IF Head(sorted).due <= a.due
         THEN <<Head(sorted)>> \o InsertByDue(Tail(sorted), a)
         ELSE <<a>> \o sorted

RECURSIVE SortByDue(_)
SortByDue(items) ==
    IF items = <<>> THEN <<>>
    ELSE InsertByDue(SortByDue(SubSeq(items, 1, Len(items) - 1)), items[Len(items)])

\* parse_assignments on the assignments sheet of a workbook; raised stands
\* for the ValueError of a missing sheet or of datetime()
ParseAssignments(sheet) ==
    IF ~sheet.found THEN [raised |-> TRUE, items |-> <<>>]
    ELSE LET r == ParseRows(sheet.rows, <<>>)
         IN  IF r.raised THEN r ELSE [raised |-> FALSE, items |-> SortByDue(r.items)]

\* ------------------------------------------------------------------------
\* format_nearest
\* ------------------------------------------------------------------------
\* seq[:limit]
SliceTo(seq, limit) ==
    LET n == IF limit >= 0
             THEN (IF limit < Len(seq) THEN limit ELSE Len(seq))
             ELSE (IF Len(seq) + limit > 0 THEN Len(seq) + limit ELSE 0)
    IN  SubSeq(seq, 1, n)

\* One bullet: the escaped title, the date text and the escaped link
BulletLine(a) ==
    [title |-> HtmlEscape(a.title), date |-> Strftime(a.due), href |-> HtmlEscape(a.link)]

\* A window that is open at both ends
OpenWindow(a, now) ==
    now < a.due /\ a.due < now + HORIZON_DAYS * DaySlots

InNearestWindow(a, now) ==
    now <= a.due /\ a.due <= now + HORIZON_DAYS * DaySlots

FormatNearest(assignments, limit, now) ==
    IF assignments = <<>> THEN [kind |-> "not_configured", lines |-> <<>>]
    ELSE LET InWin(a) == InNearestWindow(a, now)
             window == SelectSeq(assignments, InWin)
             shown == SliceTo(window, limit)
             lines == [i \in 1..Len(shown) |-> BulletLine(shown[i])]
         IN  IF lines = <<>> THEN [kind |-> "none_soon", lines |-> <<>>]
             ELSE [kind |-> "list", lines |-> lines]

\* ------------------------------------------------------------------------
\* parse_weights, parse_info
\* ------------------------------------------------------------------------
RECURSIVE WeightRows(_)
WeightRows(rows) ==
    IF rows = <<>> THEN <<>>
    ELSE LET row == Head(rows)
             label == CellText(row[1])
         IN  IF row[1].kind = "none" /\ row[2].kind = "none" THEN WeightRows(Tail(rows))
             ELSE IF label # <<>> /\ row[2].kind = "num"
             THEN <<[label |-> label, weight |-> row[2].n]>> \o WeightRows(Tail(rows))
             ELSE WeightRows(Tail(rows))

ParseWeights(sheet) ==
    IF ~sheet.found THEN [raised |-> TRUE, weights |-> <<>>]
    ELSE [raised |-> FALSE, weights |-> WeightRows(sheet.rows)]

RECURSIVE InfoRows(_)
InfoRows(rows) ==
    IF rows = <<>> THEN <<>>
    ELSE LET row == Head(rows)
             key == CellText(row[1])
         IN  IF row[1].kind = "none" /\ row[2].kind = "none" THEN InfoRows(Tail(rows))
             ELSE IF key # <<>>
             THEN <<[key |-> key, val |-> CellText(row[2])]>> \o InfoRows(Tail(rows))
             ELSE InfoRows(Tail(rows))

ParseInfo(sheet) ==
    IF ~sheet.found THEN [raised |-> TRUE, items |-> <<>>]
    ELSE [raised |-> FALSE, items |-> InfoRows(sheet.rows)]

\* ------------------------------------------------------------------------
\* Inputs: the rows, sheets and workbooks the checks draw from
\* ------------------------------------------------------------------------
BaseDay == SerialOfCivil(2024, 2, 1)

BaseTs == BaseDay * DaySlots

MissingSheet == [found |-> FALSE, rows |-> <<>>]

Sheet(rows) == [found |-> TRUE, rows |-> rows]

SampleRows ==
    { <<StrCell(<<"A">>), StrCell(<<"0", "1", ".", "0", "2", ".", "2", "0", "2", "4">>), StrCell(<<"t", ".", "m", "e", "/", "a">>)>>,
      <<StrCell(<<"B">>), StrCell(<<" ", "0", "8", ".", "0", "2", ".", "2", "0", "2", "4", " ">>), NoneCell>>,
      <<StrCell(<<"C", "&", "D">>), DatetimeCell(BaseTs + 1), NoneCell>>,
      <<StrCell(<<"E">>), NumCell(BaseTs), NoneCell>>,
      <<StrCell(<<"F">>), StrCell(<<"3", "1", ".", "0", "2", ".", "2", "0", "2", "4">>), NoneCell>>,
      <<StrCell(<<"G">>), StrCell(<<"0", "1", ".", "0", "2", ".", "2", "0", "2", "4", "x">>), NoneCell>>,
      <<StrCell(<<" ", " ">>), StrCell(<<"0", "2", ".", "0", "2", ".", "2", "0", "2", "4">>), NoneCell>>,
      <<NoneCell, NoneCell, NoneCell>>,
      <<StrCell(<<"H">>), StrCell(<<"1", ".", "2", ".", "2", "0", "2", "4">>), NoneCell>>,
      <<StrCell(<<"I">>), NoneCell, StrCell(<<"t", ".", "m", "e", "/", "i">>)>>,
      <<StrCell(<<"J">>), NumCell(3000000 * DaySlots), NoneCell>>,
      <<StrCell(<<" ", "K", " ">>), StrCell(<<"1", "5", ".", "0", "2", ".", "2", "0", "2", "4">>), NoneCell>> }

RowSeqs(n) == UNION { [1..k -> SampleRows] : k \in 0..n }

SampleSheets == {MissingSheet} \cup { Sheet(rows) : rows \in RowSeqs(MaxRows) }

SampleNows == {BaseTs - 1, BaseTs, BaseTs + 1}

SampleLimits == 0..MaxLimit

\* The workbooks users upload.  "courseA" has deadlines one day, seven days
\* and eight days after the base date, "courseB" two days after it, "broken"
\* has no assignments sheet.
DocNames == {"courseA", "courseB", "broken"}

WeightsSheet ==
    Sheet(<< <<StrCell(<<"E", "x", "a", "m">>), NumCell(60)>>, <<StrCell(<<"H", "W">>), StrCell(<<"x">>)>> >>)

InfoSheet ==
    Sheet(<< <<StrCell(<<"C", "h", "a", "t">>), StrCell(<<"t", ".", "m", "e", "/", "c">>)>>, <<NoneCell, StrCell(<<"y">>)>> >>)

DocContent(name) ==
    CASE name = "courseA" ->
           [weights |-> WeightsSheet,
            assignments |-> Sheet(<<
               <<StrCell(<<"E", "x", "a", "m">>), StrCell(<<"0", "9", ".", "0", "2", ".", "2", "0", "2", "4">>), NoneCell>>,
               <<StrCell(<<"H", "W", "2">>), StrCell(<<"0", "8", ".", "0", "2", ".", "2", "0", "2", "4">>), StrCell(<<"t", ".", "m", "e", "/", "h">>)>>,
               <<StrCell(<<"Q", "u", "i", "z">>), DatetimeCell((BaseDay + WEEK_AHEAD) * DaySlots + 1), NoneCell>>,
               <<StrCell(<<"H", "W", "1">>), StrCell(<<"0", "2", ".", "0", "2", ".", "2", "0", "2", "4">>), NoneCell>> >>),
            info |-> InfoSheet]
      [] name = "courseB" ->
           [weights |-> WeightsSheet,
            assignments |-> Sheet(<<
               <<StrCell(<<"L", "a", "b">>), StrCell(<<"0", "3", ".", "0", "2", ".", "2", "0", "2", "4">>), NoneCell>> >>),
            info |-> MissingSheet]
      [] OTHER ->
           [weights |-> WeightsSheet, assignments |-> MissingSheet, info |-> InfoSheet]

\* ------------------------------------------------------------------------
\* Chats, users, the data directory
\* ------------------------------------------------------------------------
NumGroups == 1

\* The operator's private chat and group chats (negative ids)
Chats == {ADMIN_ID} \cup { 0 - g : g \in 1..NumGroups }

Users == {ADMIN_ID, ADMIN_ID + 1}

\* Who can write in a chat: its owner in a private chat, anyone in a group
Senders(chat) == IF chat > 0 THEN {chat} ELSE Users

\* get_chat_file: the stem of DATA_DIR / f"{chat_id}.xlsx"
\* One document for all chats
SharedChatFile(chat_id) == IntStr(ADMIN_ID)

GetChatFile(chat_id) == IntStr(chat_id)

NotesStem == <<"n", "o", "t", "e", "s">>

Stems == { IntStr(c) : c \in Chats } \cup {NotesStem}

\* What a message carries: no document at all, or a document with a file
\* name and a content
NoAttachment == [has |-> FALSE, file_name |-> <<>>, doc |-> "none"]

Attachment(file_name, doc) == [has |-> TRUE, file_name |-> file_name, doc |-> doc]

Attachments ==
    {NoAttachment, Attachment(<<"c", ".", "t", "x", "t">>, "courseA"), Attachment(<<"B", ".", "X", "L", "S", "M">>, "courseA")}
    \cup { Attachment(<<"a", ".", "x", "l", "s", "x">>, d) : d \in DocNames }

VARIABLES
    phase,      \* "boot" before the startup hook has run, "running" after
    jq,         \* whether the application has a job queue
    testMode,   \* TEST_MODE
    files,      \* the data directory: stem -> workbook name or "none"
    jobs,       \* the scheduler's jobs, in registration order
    userData,   \* context.user_data: user -> 'expecting_update' is set
    upload,     \* the handle_document call that is awaiting, if any
    reply,      \* the last reply sent by a handler
    now,        \* the clock
    ticks,      \* the reminder callbacks started so far
    outbox,     \* the reminder messages sent, in order
    lastUpload, \* history: chat -> the workbook of its latest Excel upload
    armed,      \* history: what happened since the last accepted /update
    received,   \* history: how many documents have been downloaded
    pin, plimit, pnow, pstage, pres, pout   \* the extraction pipeline's run

vars == <<phase, jq, testMode, files, jobs, userData, upload, reply, now, ticks,
          outbox, lastUpload, armed, received, pin, plimit, pnow, pstage, pres, pout>>

botVars == <<phase, jq, testMode, files, jobs, userData, upload, reply, now, ticks,
             outbox, lastUpload, armed, received>>

pipeVars == <<pin, plimit, pnow, pstage, pres, pout>>

\* ------------------------------------------------------------------------
\* Reminder jobs
\* ------------------------------------------------------------------------
MaxTicks == 2

MaxUploads == 2

JobIds(js) == { js[i].id : i \in 1..Len(js) }

TickJobIds == { t.job : t \in ticks }

\* The identity of a newly created Job object
FreshId(used) == CHOOSE i \in 1..(Cardinality(used) + 1) : i \notin used

JobName(chat_id) == <<"d", "a", "i", "l", "y", ":">> \o IntStr(chat_id)

\* jq.scheduler.remove_all_jobs()
RemoveAllJobs(js) == <<>>

\* A rescheduling that cancels the jobs and registers none
CancelOnly(js, chat_id, xlsx_path) == RemoveAllJobs(js)

\* schedule_chat_reminders: the job list after the call
ScheduleChatReminders(js, chat_id, xlsx_path) ==
    IF ~jq THEN js
    ELSE LET cleared == RemoveAllJobs(js)
             job == [id |-> FreshId(JobIds(cleared) \cup TickJobIds),
                     name |-> JobName(chat_id),
                     chat_id |-> chat_id,
                     xlsx_path |-> xlsx_path,
                     trigger |-> IF testMode THEN "every15s" ELSE "daily10"]
         IN  Append(cleared, job)

\* The jobs registered under a chat's name
JobsNamed(js, chat_id) == { i \in 1..Len(js) : js[i].name = JobName(chat_id) }

\* ------------------------------------------------------------------------
\* The startup hook
\* ------------------------------------------------------------------------
\* DATA_DIR.glob('*.xlsx'): the stems present, in any order
Listing == { st \in Stems : files[st] # "none" }

Orderings(S) ==
    { o \in [1..Cardinality(S) -> S] : \A i, j \in 1..Cardinality(S) : o[i] = o[j] => i = j }

RECURSIVE StartupLoop(_, _)
StartupLoop(paths, js) ==
    IF paths = <<>> THEN js
    ELSE LET chat == ParseInt(Head(paths))
         IN  IF ~chat.ok THEN StartupLoop(Tail(paths), js)
             ELSE StartupLoop(Tail(paths), ScheduleChatReminders(js, chat.val, Head(paths)))

Startup ==
    /\ phase = "boot"
    /\ \E order \in Orderings(Listing) : jobs' = StartupLoop(order, jobs)
    /\ phase' = "running"
    /\ UNCHANGED <<jq, testMode, files, userData, upload, reply, now, ticks, outbox,
                   lastUpload, armed>>
    /\ UNCHANGED received
    /\ UNCHANGED pipeVars

\* ------------------------------------------------------------------------
\* Handlers.  Updates are handled one at a time: a handler starts only when
\* no handle_document call is awaiting.
\* ------------------------------------------------------------------------
NoText == [kind |-> "", lines |-> <<>>]

Reply(chat, kind) ==
    [chat |-> chat, kind |-> kind, formula |-> <<>>, deadlines |-> NoText, items |-> <<>>]

Idle == [active |-> FALSE, chat |-> 0, user |-> 0, is_update_request |-> FALSE]

HandlerFree == phase = "running" /\ ~upload.active

\* load_workbook + parse_*: a missing file raises like a missing sheet
ReadAssignments(fs, path) ==
    IF fs[path] = "none" THEN [raised |-> TRUE, items |-> <<>>]
    ELSE ParseAssignments(DocContent(fs[path]).assignments)

ReadWeights(fs, path) ==
    IF fs[path] = "none" THEN [raised |-> TRUE, weights |-> <<>>]
    ELSE ParseWeights(DocContent(fs[path]).weights)

ReadInfo(fs, path) ==
    IF fs[path] = "none" THEN [raised |-> TRUE, items |-> <<>>]
    ELSE ParseInfo(DocContent(fs[path]).info)

\* help_cmd: the reply
HelpReply(chat_id) ==
    LET xlsx_path == GetChatFile(chat_id)
        w == ReadWeights(files, xlsx_path)
        a == ReadAssignments(files, xlsx_path)
    IN  IF files[xlsx_path] = "none" THEN Reply(chat_id, "upload_first")
        ELSE IF w.raised \/ a.raised THEN Reply(chat_id, "help_read_failed")
        ELSE [chat |-> chat_id, kind |-> "help", formula |-> w.weights,
              deadlines |-> FormatNearest(a.items, DEFAULT_LIMIT, now), items |-> <<>>]

HelpCmd ==
    /\ HandlerFree
    /\ \E chat \in Chats : reply' = HelpReply(chat)
    /\ UNCHANGED <<phase, jq, testMode, files, jobs, userData, upload, now, ticks,
                   outbox, lastUpload, armed>>
    /\ UNCHANGED received
    /\ UNCHANGED pipeVars

\* info_cmd: the reply
InfoReply(chat_id) ==
    LET xlsx_path == GetChatFile(chat_id)
        r == ReadInfo(files, xlsx_path)
    IN  IF files[xlsx_path] = "none" THEN Reply(chat_id, "upload_first")
        ELSE IF r.raised THEN Reply(chat_id, "info_read_failed")
        ELSE [chat |-> chat_id, kind |-> "info", formula |-> <<>>,
              deadlines |-> NoText, items |-> r.items]

InfoCmd ==
    /\ HandlerFree
    /\ \E chat \in Chats : reply' = InfoReply(chat)
    /\ UNCHANGED <<phase, jq, testMode, files, jobs, userData, upload, now, ticks,
                   outbox, lastUpload, armed>>
    /\ UNCHANGED received
    /\ UNCHANGED pipeVars

\* update_cmd: whether the chat is the authorized one
\* An /update that is accepted from any chat
AnyoneAuthorized(chat_id) == TRUE

Authorized(chat_id) == chat_id = ADMIN_ID

UpdateCmd ==
    /\ HandlerFree
    /\ \E chat \in Chats : \E user \in Senders(chat) :
          IF ~Authorized(chat)
          THEN /\ reply' = Reply(chat, "denied")
               /\ UNCHANGED <<userData, armed>>
          ELSE /\ userData' = [userData EXCEPT ![user] = TRUE]
               /\ reply' = Reply(chat, "send_file")
               /\ armed' = [ever |-> TRUE, handled |-> FALSE, valid |-> FALSE]
    /\ UNCHANGED <<phase, jq, testMode, files, jobs, upload, now, ticks, outbox,
                   lastUpload>>
    /\ UNCHANGED received
    /\ UNCHANGED pipeVars

\* handle_document's test of the file name
IsExcelName(file_name) ==
    LET n == Lower(file_name)
    IN  EndsWith(n, <<".", "x", "l", "s", "x">>) \/ EndsWith(n, <<".", "x", "l", "s", "m">>)

\* handle_document up to the end of the download (the file is on disk)
HandleDocumentReceive ==
    /\ HandlerFree
    /\ \E chat \in Chats : \E user \in Senders(chat) : \E att \in Attachments :
          LET is_update_request == userData[user]
          IN  IF ~att.has
              THEN UNCHANGED <<files, upload, reply, lastUpload, received>>
              ELSE IF ~IsExcelName(att.file_name)
              THEN /\ reply' = Reply(chat, "need_excel")
                   /\ UNCHANGED <<files, upload, lastUpload, received>>
              ELSE /\ received < MaxUploads
                   /\ received' = received + 1
                   /\ reply' = Reply(chat, IF is_update_request THEN "updating" ELSE "receiving")
                   /\ files' = [files EXCEPT ![GetChatFile(chat)] = att.doc]
                   /\ upload' = [active |-> TRUE, chat |-> chat, user |-> user,
                                 is_update_request |-> is_update_request]
                   /\ lastUpload' = [lastUpload EXCEPT ![chat] = att.doc]
    /\ UNCHANGED <<phase, jq, testMode, jobs, userData, now, ticks, outbox, armed>>
    /\ UNCHANGED pipeVars

\* The validation of the stored file: parse_weights, then parse_assignments
ValidationFails(fs, path) ==
    ReadWeights(fs, path).raised \/ ReadAssignments(fs, path).raised

\* handle_document from the validation to its end
HandleDocumentFinish ==
    /\ phase = "running"
    /\ upload.active
    /\ LET chat == upload.chat
           new_path == GetChatFile(chat)
           byOperator == upload.user = ADMIN_ID
       IN  IF ValidationFails(files, new_path)
           THEN /\ reply' = Reply(chat, "saved_but_unreadable")
                /\ armed' = [armed EXCEPT !.handled = armed.handled \/ (armed.ever /\ chat = ADMIN_ID)]
                /\ UNCHANGED <<jobs, userData>>
           ELSE /\ userData' = [userData EXCEPT ![upload.user] = FALSE]
                /\ jobs' = ScheduleChatReminders(jobs, chat, new_path)
                /\ reply' = Reply(chat, IF testMode THEN "test_reminders_on"
                                                    ELSE "daily_reminders_on")
                /\ armed' = [armed EXCEPT !.handled = armed.handled \/ (armed.ever /\ chat = ADMIN_ID),
                                          !.valid = armed.valid \/ (armed.ever /\ byOperator)]
    /\ upload' = Idle
    /\ UNCHANGED <<phase, jq, testMode, files, now, ticks, outbox, lastUpload>>
    /\ UNCHANGED received
    /\ UNCHANGED pipeVars

\* ------------------------------------------------------------------------
\* daily_reminder_callback.  A callback awaits twice: after sending the week
\* message and after sending the day message; other callbacks and handlers
\* run while it awaits.  ticks holds the callbacks that have started and
\* have not yet been released by the scheduler; outbox holds the messages
\* they have sent, in sending order.
\* ------------------------------------------------------------------------
\* build_message: the bullets of a bucket (no message for an empty bucket)
BuildMessage(items) == [i \in 1..Len(items) |-> BulletLine(items[i])]

\* A week target that is a day late
LateWeekTarget(today) == today + WEEK_AHEAD + 1

WeekTarget(today) == today + WEEK_AHEAD

DayTarget(today) == today + DAY_AHEAD

\* The buckets of a callback that read `parsed` on the date `today`
PlanOf(job, parsed, today) ==
    LET IsWeek(a) == DateOf(a.due) = WeekTarget(today)
        IsDay(a) == DateOf(a.due) = DayTarget(today)
        run == job.chat_id # 0 /\ job.xlsx_path # <<>> /\ ~parsed.raised
    IN  [job |-> job.id,
         chat |-> job.chat_id,
         parsed |-> run,
         today |-> today,
         assignments |-> IF run THEN parsed.items ELSE <<>>,
         week_items |-> IF run THEN SelectSeq(parsed.items, IsWeek) ELSE <<>>,
         day_items |-> IF run THEN SelectSeq(parsed.items, IsDay) ELSE <<>>]

\* The callback up to its first send: what it read and computed
ReminderPlan(job, fs, nowTs) ==
    PlanOf(job, ReadAssignments(fs, job.xlsx_path), DateOf(nowTs))

\* A message that goes to the operator's chat whatever the job's chat is
MessageToOperator(tick, chat, label, items) ==
    [tick |-> tick, chat |-> ADMIN_ID, label |-> label, lines |-> BuildMessage(items)]

Message(tick, chat, label, items) ==
    [tick |-> tick, chat |-> chat, label |-> label, lines |-> BuildMessage(items)]

\* Which message the callback sends first: the position it awaits at
FirstSend(plan) ==
    IF plan.week_items # <<>> THEN "week"
    ELSE IF plan.day_items # <<>> THEN "day"
    ELSE "done"

\* A started callback: its local variables and the position it awaits at
Tick(id, plan, pc) ==
    [id |-> id, job |-> plan.job, chat |-> plan.chat, parsed |-> plan.parsed,
     today |-> plan.today, assignments |-> plan.assignments,
     week_items |-> plan.week_items, day_items |-> plan.day_items, pc |-> pc]

\* The scheduler runs one instance of a job at a time (max_instances = 1)
JobIsRunning(id) == \E t \in ticks : t.job = id /\ t.pc # "done"

\* The start of a callback: it is entered in ticks and sends its first message
StartTick(plan, id) ==
    LET first == FirstSend(plan)
    IN  /\ ticks' = ticks \cup {Tick(id, plan, first)}
        /\ outbox' =
             IF first = "week"
             THEN Append(outbox, Message(id, plan.chat, "week", plan.week_items))
             ELSE IF first = "day"
             THEN Append(outbox, Message(id, plan.chat, "day", plan.day_items))
             ELSE outbox

TickStart ==
    /\ phase = "running"
    /\ Cardinality(ticks) < MaxTicks
    /\ \E j \in 1..Len(jobs) :
          /\ ~JobIsRunning(jobs[j].id)
          /\ StartTick(ReminderPlan(jobs[j], files, now), FreshId({ t.id : t \in ticks }))
    /\ UNCHANGED <<phase, jq, testMode, files, jobs, userData, upload, reply, now,
                   lastUpload, armed>>
    /\ UNCHANGED received
    /\ UNCHANGED pipeVars

\* The week send has returned: send the day message, if any
TickAfterWeek ==
    /\ \E t \in ticks :
          /\ t.pc = "week"
          /\ IF t.day_items # <<>>
             THEN /\ outbox' = Append(outbox, Message(t.id, t.chat, "day", t.day_items))
                  /\ ticks' = (ticks \ {t}) \cup {[t EXCEPT !.pc = "day"]}
             ELSE /\ ticks' = (ticks \ {t}) \cup {[t EXCEPT !.pc = "done"]}
                  /\ UNCHANGED outbox
    /\ UNCHANGED <<phase, jq, testMode, files, jobs, userData, upload, reply, now,
                   lastUpload, armed>>
    /\ UNCHANGED received
    /\ UNCHANGED pipeVars

\* The day send has returned: the callback ends
TickAfterDay ==
    /\ \E t \in ticks :
          /\ t.pc = "day"
          /\ ticks' = (ticks \ {t}) \cup {[t EXCEPT !.pc = "done"]}
    /\ UNCHANGED <<phase, jq, testMode, files, jobs, userData, upload, reply, now,
                   outbox, lastUpload, armed>>
    /\ UNCHANGED received
    /\ UNCHANGED pipeVars

\* The scheduler releases a callback that has ended
TickRelease ==
    /\ \E t \in ticks :
          /\ t.pc = "done"
          /\ ticks' = ticks \ {t}
          /\ LET Kept(m) == m.tick # t.id
             IN  outbox' = SelectSeq(outbox, Kept)
    /\ UNCHANGED <<phase, jq, testMode, files, jobs, userData, upload, reply, now,
                   lastUpload, armed>>
    /\ UNCHANGED received
    /\ UNCHANGED pipeVars

\* Time passes
AdvanceClock ==
    /\ now < BaseTs + MaxClock
    /\ now' = now + 1
    /\ UNCHANGED <<phase, jq, testMode, files, jobs, userData, upload, reply, ticks,
                   outbox, lastUpload, armed>>
    /\ UNCHANGED received
    /\ UNCHANGED pipeVars

\* ------------------------------------------------------------------------
\* The extraction pipeline on its own: parse_assignments on a sheet, then
\* format_nearest on its result
\* ------------------------------------------------------------------------
NoParse == [raised |-> FALSE, items |-> <<>>]

PipeParse ==
    /\ pstage = "input"
    /\ pres' = ParseAssignments(pin)
    /\ pstage' = "parsed"
    /\ UNCHANGED <<pin, plimit, pnow, pout>>
    /\ UNCHANGED botVars

PipeFormat ==
    /\ pstage = "parsed"
    /\ ~pres.raised
    /\ pout' = FormatNearest(pres.items, plimit, pnow)
    /\ pstage' = "formatted"
    /\ UNCHANGED <<pin, plimit, pnow, pres>>
    /\ UNCHANGED botVars

\* ------------------------------------------------------------------------
\* Specifications
\* ------------------------------------------------------------------------
\* What the data directory may hold when the process starts
StoredAtBoot == {"none", "courseA"}

BotInit ==
    /\ phase = "boot"
    /\ jq \in BOOLEAN
    /\ testMode \in BOOLEAN
    /\ files \in [Stems -> StoredAtBoot]
    /\ jobs = <<>>
    /\ userData = [u \in Users |-> FALSE]
    /\ upload = Idle
    /\ reply = Reply(0, "none")
    /\ now = BaseTs
    /\ ticks = {}
    /\ outbox = <<>>
    /\ lastUpload = [c \in Chats |-> "none"]
    /\ armed = [ever |-> FALSE, handled |-> FALSE, valid |-> FALSE]
    /\ received = 0

PipeIdle ==
    /\ pin = MissingSheet
    /\ plimit = 0
    /\ pnow = BaseTs
    /\ pstage = "off"
    /\ pres = NoParse
    /\ pout = NoText

Init == BotInit /\ PipeIdle

\* The handlers, without the reminder callbacks
Next ==
    \/ Startup
    \/ HelpCmd
    \/ InfoCmd
    \/ UpdateCmd
    \/ HandleDocumentReceive
    \/ HandleDocumentFinish
    \/ AdvanceClock

Spec == Init /\ [][Next]_vars

\* The reminder callbacks, with the handler that registers their jobs
NextReminders ==
    \/ Startup
    \/ HandleDocumentReceive
    \/ HandleDocumentFinish
    \/ TickStart
    \/ TickAfterWeek
    \/ TickAfterDay
    \/ TickRelease
    \/ AdvanceClock

\* The reminders are followed in the fast-interval mode, with a job queue
InitReminders == Init /\ jq /\ testMode

SpecReminders == InitReminders /\ [][NextReminders]_vars

\* The bot before its start, with an empty data directory
BotOff ==
    /\ phase = "off"
    /\ jq = FALSE
    /\ testMode = FALSE
    /\ files = [st \in Stems |-> "none"]
    /\ jobs = <<>>
    /\ userData = [u \in Users |-> FALSE]
    /\ upload = Idle
    /\ reply = Reply(0, "none")
    /\ now = BaseTs
    /\ ticks = {}
    /\ outbox = <<>>
    /\ lastUpload = [c \in Chats |-> "none"]
    /\ armed = [ever |-> FALSE, handled |-> FALSE, valid |-> FALSE]
    /\ received = 0

PipeInit ==
    /\ pin \in SampleSheets
    /\ plimit \in SampleLimits
    /\ pnow \in SampleNows
    /\ pstage = "input"
    /\ pres = NoParse
    /\ pout = NoText

InitPipe == BotOff /\ PipeInit

NextPipe ==
    \/ PipeParse
    \/ PipeFormat

SpecPipe == InitPipe /\ [][NextPipe]_vars

\* ------------------------------------------------------------------------
\* Properties
\* ------------------------------------------------------------------------
\* A job registered for the chat with the chat's id and its document path
HasJob(js, chat) ==
    \E i \in 1..Len(js) :
       /\ js[i].name = JobName(chat)
       /\ js[i].chat_id = chat
       /\ js[i].xlsx_path = IntStr(chat)

\* A handle_document call ends in this step
UploadEnds == upload.active /\ ~upload'.active

\* C1: when schedule_chat_reminders runs for chat A after a successful upload
\* in A, the job registered for another chat B is still registered afterwards
\* with unchanged data; only A's job is cancelled and replaced.
C1_OtherChatsJobsKept ==
    [][ UploadEnds =>
          \A b \in Chats \ {upload.chat} :
             \A i \in JobsNamed(jobs, b) :
                \E k \in 1..Len(jobs') : jobs'[k] = jobs[i] ]_vars

\* C2: after the startup hook has finished (and before any upload is handled),
\* every file <chat_id>.xlsx of the data directory whose stem is an integer
\* has exactly one registered job named daily:<chat_id> carrying that chat id
\* and that path, however many such files there are.
C2_StartupRegistersEveryFile ==
    (phase = "running" /\ received = 0 /\ jq) =>
       \A st \in Listing :
          ParseInt(st).ok =>
             /\ Cardinality(JobsNamed(jobs, ParseInt(st).val)) = 1
             /\ \A i \in JobsNamed(jobs, ParseInt(st).val) :
                   jobs[i].chat_id = ParseInt(st).val /\ jobs[i].xlsx_path = st

HelpOfDoc(chat, doc, nowTs) ==
    IF doc = "broken" THEN Reply(chat, "help_read_failed")
    ELSE [chat |-> chat, kind |-> "help",
          formula |-> ParseWeights(DocContent(doc).weights).weights,
          deadlines |-> FormatNearest(ParseAssignments(DocContent(doc).assignments).items,
                                      DEFAULT_LIMIT, nowTs),
          items |-> <<>>]

\* What a /info of a chat whose latest upload is `doc` must answer
InfoOfDoc(chat, doc) ==
    IF doc = "courseB" THEN Reply(chat, "info_read_failed")
    ELSE [chat |-> chat, kind |-> "info", formula |-> <<>>, deadlines |-> NoText,
          items |-> ParseInfo(DocContent(doc).info).items]

\* The stored document of a chat that has uploaded is its latest upload, valid
\* or not, and a /help, a /info or a reminder callback of that chat started
\* now reads that document
C6_LatestStored ==
    \A c \in Chats :
       lastUpload[c] # "none" =>
          /\ files[IntStr(c)] = lastUpload[c]
          /\ HelpReply(c) = HelpOfDoc(c, lastUpload[c], now)
          /\ InfoReply(c) = InfoOfDoc(c, lastUpload[c])
          /\ \A i \in JobsNamed(jobs, c) :
                ReminderPlan(jobs[i], files, now).assignments =
                   ParseAssignments(DocContent(lastUpload[c]).assignments).items

\* C6: after any sequence of uploads the stored document of a chat is the
\* content of the most recent Excel upload made in that chat, validated or
\* not; every later /help, /info and reminder callback of the chat reads that
\* document; an upload in one chat never changes another chat's document.
C6_LastUploadWins ==
    /\ []C6_LatestStored
    /\ [][ \A c \in Chats :
              files'[IntStr(c)] # files[IntStr(c)] => (upload'.active /\ upload'.chat = c) ]_vars

\* Two uploads have been handled, one chat's latest is an unreadable workbook
\* and it is the one stored, while another chat keeps its own
C6_Witness ==
    /\ received >= 2
    /\ ~upload.active
    /\ \E c, d \in Chats :
          /\ c # d
          /\ lastUpload[c] = "broken" /\ files[IntStr(c)] = "broken"
          /\ lastUpload[d] = "courseB" /\ files[IntStr(d)] = "courseB"

\* C10 as claimed: the flag is set only if the operator issued /update and no
\* document upload in that chat has been handled since; no other identity
\* ever sets it.
C10_AnyUploadConsumes ==
    /\ \A u \in Users \ {ADMIN_ID} : ~userData[u]
    /\ userData[ADMIN_ID] => (armed.ever /\ ~armed.handled)

\* C10 as amended: the flag, kept in the operator's session, is set exactly
\* when /update was accepted from the operator's chat and no upload by the
\* operator has passed validation since; /update from any other chat never
\* sets it; an upload reads the flag when it starts.
C10_ValidUploadConsumes ==
    /\ \A u \in Users \ {ADMIN_ID} : ~userData[u]
    /\ userData[ADMIN_ID] <=> (armed.ever /\ ~armed.valid)
    /\ upload.active => (upload.is_update_request <=> userData[upload.user])

\* After /update the operator's upload passed validation, the flag is gone,
\* and their next upload runs as an ordinary one
C10_Witness ==
    /\ armed.ever /\ armed.valid
    /\ ~userData[ADMIN_ID]
    /\ upload.active /\ upload.user = ADMIN_ID /\ ~upload.is_update_request

\* ------------------------------------------------------------------------
\* Properties of the reminder callback
\* ------------------------------------------------------------------------
\* The positions in the outbox of the messages a callback sent under a label
Sent(id, label) ==
    { i \in 1..Len(outbox) : outbox[i].tick = id /\ outbox[i].label = label }

\* The assignments of a list that are due `ahead` days after `today`
DueIn(assignments, today, ahead) ==
    LET Hit(a) == a.due \div DaySlots = today + ahead
    IN  SelectSeq(assignments, Hit)

\* The callback sent under the label exactly one message listing exactly the
\* bucket, or nothing when the bucket is empty
SentExactly(t, label, bucket) ==
    /\ Cardinality(Sent(t.id, label)) = (IF bucket = <<>> THEN 0 ELSE 1)
    /\ \A i \in Sent(t.id, label) :
          /\ Len(outbox[i].lines) = Len(bucket)
          /\ \A k \in 1..Len(bucket) :
                outbox[i].lines[k] =
                   [title |-> HtmlEscape(bucket[k].title),
                    date |-> Strftime(bucket[k].due),
                    href |-> HtmlEscape(bucket[k].link)]

\* Every callback whose document parsed has sent the week message iff some
\* assignment is due on today+7 and, once past the day send, the day message
\* iff some assignment is due on today+1, each listing exactly its bucket
C4_BucketsSent ==
    \A t \in ticks :
       t.parsed =>
          /\ SentExactly(t, "week", DueIn(t.assignments, t.today, 7))
          /\ t.pc \in {"day", "done"} =>
                SentExactly(t, "day", DueIn(t.assignments, t.today, 1))
          /\ t.pc = "week" => Sent(t.id, "day") = {}

\* A callback that starts takes the current date as today and the parse of
\* the job's document as its assignments
C4_ReadsNow ==
    \A t \in ticks' \ ticks :
       (\A u \in ticks : u.id # t.id) =>
          /\ t.today = now \div DaySlots
          /\ \A j \in 1..Len(jobs) :
                jobs[j].id = t.job =>
                   /\ t.parsed = ~ReadAssignments(files, jobs[j].xlsx_path).raised
                   /\ t.parsed =>
                         t.assignments = ReadAssignments(files, jobs[j].xlsx_path).items

\* C4: for every reminder tick of a chat whose document parses, with today
\* the current local date, a week message is sent iff at least one assignment
\* is due on today+7 and a day message is sent iff at least one is due on
\* today+1; each sent message lists exactly the assignments of its bucket and
\* no message is sent for an empty bucket.
C4_WeekAndDayMessages ==
    /\ []C4_BucketsSent
    /\ [][C4_ReadsNow]_vars

\* A callback has ended after sending a week message of two assignments and a
\* day message
C4_Witness ==
    \E t \in ticks :
       /\ t.parsed /\ t.pc = "done"
       /\ \E i \in Sent(t.id, "week") : Len(outbox[i].lines) = 2
       /\ \E i \in Sent(t.id, "day") : Len(outbox[i].lines) = 1

\* Every message in the outbox went to the chat of the callback that sent it,
\* a callback sent at most one week and one day message, and the week message
\* precedes the day message
OwnChatInOrder ==
    /\ \A i \in 1..Len(outbox) :
          /\ outbox[i].label \in {"week", "day"}
          /\ \E t \in ticks : t.id = outbox[i].tick /\ t.chat = outbox[i].chat
    /\ \A t \in ticks :
          /\ Cardinality(Sent(t.id, "week")) <= 1
          /\ Cardinality(Sent(t.id, "day")) <= 1
          /\ \A i \in Sent(t.id, "week") : \A k \in Sent(t.id, "day") : i < k

\* Callback u sent a message between the week and the day message of t
SentBetween(t, u) ==
    \E i \in Sent(t.id, "week") : \E k \in Sent(t.id, "day") :
       \E m \in (i + 1)..(k - 1) : outbox[m].tick = u.id

\* C5 as claimed: each tick sends zero, one or two messages, to its own chat
\* only, week before day, and no message of another tick of the same chat is
\* sent between the two.
C5_NoOtherTickOfChatBetween ==
    /\ OwnChatInOrder
    /\ \A t, u \in ticks : (t.id # u.id /\ t.chat = u.chat) => ~SentBetween(t, u)

\* C5 as amended: each tick sends zero, one or two messages, to its own chat
\* only, week before day, and no message of another tick of the same job is
\* sent between the two; the callbacks of two different jobs, also of two
\* jobs registered one after the other for the same chat, interleave at the
\* sends.
C5_NoOtherTickOfJobBetween ==
    /\ OwnChatInOrder
    /\ \A t, u \in ticks :
          (t.id # u.id /\ t.job = u.job) =>
             /\ ~SentBetween(t, u)
             /\ t.pc = "done" \/ u.pc = "done"

\* Two callbacks of one job in a group chat have each sent the week message
\* and then the day message
C5_Witness ==
    \E t, u \in ticks :
       /\ t.id # u.id /\ t.job = u.job /\ t.chat # ADMIN_ID
       /\ \A v \in {t, u} :
             \E i \in Sent(v.id, "week") : \E k \in Sent(v.id, "day") : i < k

\* ------------------------------------------------------------------------
\* Properties of parse_assignments and format_nearest
\* ------------------------------------------------------------------------
\* A due cell the contract accepts: a timestamp, a convertible serial, or a
\* text that, trimmed, is exactly DD.MM.YYYY and names a real calendar date
StrictDue(c) ==
    \/ c.kind = "datetime"
    \/ c.kind = "num" /\ FromExcel(c.n).ok
    \/ /\ c.kind = "str"
       /\ Len(Strip(c.s)) = 10
       /\ DateRegexMatches(Strip(c.s))
       /\ MakeDatetime(DigitsVal(SubSeq(Strip(c.s), 7, 10), 0),
                       DigitsVal(SubSeq(Strip(c.s), 4, 5), 0),
                       DigitsVal(SubSeq(Strip(c.s), 1, 2), 0)).ok

\* A row the contract returns: a title that is not empty and an accepted due
StrictRow(row) ==
    /\ row[1].kind # "none"
    /\ Strip(CellText(row[1])) # <<>>
    /\ StrictDue(row[2])

\* C7: for every assignments sheet that exists parse_assignments returns and
\* never raises because of a row: a row with an empty title or a due value
\* that is not a timestamp, a convertible serial or a string strictly of the
\* form DD.MM.YYYY naming a real date is dropped, all other rows are returned.
C7_BadRowsDropped ==
    (pstage # "input" /\ pin.found) =>
       /\ ~pres.raised
       /\ Len(pres.items) = Cardinality({ k \in 1..Len(pin.rows) : StrictRow(pin.rows[k]) })
       /\ \A i \in 1..Len(pres.items) :
             \E k \in 1..Len(pin.rows) :
                /\ StrictRow(pin.rows[k])
                /\ pres.items[i].title = Strip(CellText(pin.rows[k][1]))

\* The assignments of the list that lie in [at, at + 14 days]
Within14Days(assignments, at) ==
    LET In(a) == at <= a.due /\ a.due <= at + 14 * DaySlots
    IN  SelectSeq(assignments, In)

\* The answer lists the first n assignments of the window W, in order
ListsFirst(W, n) ==
    /\ Len(pout.lines) = n
    /\ \A i \in 1..n :
          pout.lines[i] = [title |-> HtmlEscape(W[i].title),
                           date |-> Strftime(W[i].due),
                           href |-> HtmlEscape(W[i].link)]
    /\ \A i \in 1..n : \A k \in (i + 1)..Len(W) : W[i].due <= W[k].due
    /\ pout.kind = (IF n = 0 THEN "none_soon" ELSE "list")

DueAt(items, d) ==
    LET At(a) == a.due = d
    IN  SelectSeq(items, At)

\* The result is sorted and, for every due timestamp, holds the accepted rows
\* of that timestamp in sheet order
SortedStable(result, accepted) ==
    /\ \A i \in 1..(Len(result) - 1) : result[i].due <= result[i + 1].due
    /\ Len(result) = Len(accepted)
    /\ \A i \in 1..Len(accepted) :
          DueAt(result, accepted[i].due) = DueAt(accepted, accepted[i].due)

\* C9: for any order of the input rows the list returned by
\* parse_assignments is sorted non-decreasing by due timestamp, contains
\* exactly the accepted rows, none lost or duplicated, and keeps rows with
\* equal due timestamps in their sheet order.
C9_SortedExactStable ==
    (pstage # "input" /\ ~pres.raised) =>
       SortedStable(pres.items, ParseRows(pin.rows, <<>>).items)

\* Three rows were accepted, the sheet was not in due order, and two rows of
\* different titles share a due timestamp
C9_Witness ==
    /\ pstage = "parsed"
    /\ pin.found /\ ~pres.raised
    /\ Len(pres.items) = 3
    /\ pres.items # ParseRows(pin.rows, <<>>).items
    /\ pres.items[1].due = pres.items[2].due
    /\ pres.items[1].title # pres.items[2].title
    /\ pres.items[2].due < pres.items[3].due

====



